---- MODULE Spec2Model ----
(***************************************************************************)
(* Model of music.py: a linear script that parses its options, looks up    *)
(* the caller's identity on the hosting platform, creates one "space"      *)
(* repository with eleven secrets and uploads README.md and a Dockerfile.  *)
(*                                                                         *)
(* Text is modelled as a sequence of atoms.  An atom is either a single    *)
(* character ("a", "7", "/") or a literal fragment of the program text     *)
(* ("FROM ", "ghcr.io/zxlwq/music:latest").  String concatenation is \o,   *)
(* len() is Len, and Python's truthiness of a string is Len(s) > 0.        *)
(***************************************************************************)
EXTENDS Integers, Sequences, FiniteSets, TLC

\* ---------------------------------------------------------------- bounds
\* largest length handed to generate_random_string in the generator spec
MaxLen == 4

\* ------------------------------------------------------------- alphabets
\* string.ascii_letters, cut down to two representatives
Letters == {"a", "Z"}
\* string.digits, cut down to one representative
Digits == {"7"}
\* chars = string.ascii_letters + string.digits
Chars == Letters \cup Digits

\* None (an option that was not given, a dict key that is missing)
None == <<"<None>">>

\* the empty string
Empty == <<>>

\* a namespace or dict variable that is not assigned yet
Unassigned == [unassigned |-> TRUE]

\* Python truthiness of a str-or-None value
Truthy(v) == v # None /\ Len(v) > 0

\* `a or b`
Or(a, b) == IF Truthy(a) THEN a ELSE b

\* ------------------------------------------------ generate_random_string
\* all bijections of 1..n onto itself: the outcomes of random.shuffle
Perms(n) == {p \in [1..n -> 1..n] : \A i, j \in 1..n : p[i] = p[j] => i = j}

\* the run of the generator for one draw of its three random choices
BuildString(length, mandatory_letter, remaining_chars, perm) ==
    LET full_chars == remaining_chars \o <<mandatory_letter>>
    IN  [i \in 1..length |-> full_chars[perm[i]]]

\* A faulty generator: the mandatory letter is drawn from chars.
generate_random_string_anychar(length) ==
    IF length < 1 THEN {Empty}
    ELSE {BuildString(length, m, r, p) :
            m \in Chars, r \in [1..(length - 1) -> Chars], p \in Perms(length)}

\* the set of strings generate_random_string(length) can return
generate_random_string(length) ==
    IF length < 1 THEN {Empty}
    ELSE {BuildString(length, m, r, p) :
            m \in Letters, r \in [1..(length - 1) -> Chars], p \in Perms(length)}

\* ------------------------------------------------------- program literals
DefaultImage == <<"ghcr.io/zxlwq/music:latest">>
DefaultGitRepo == <<"zxlwq/music">>
DefaultGitBranch == <<"main">>
\* the three printed lines, transliterated to ASCII
TokenEmptyMsg == "Token must not be empty"
NoUserMsg == "no user name obtained, exiting"
SuccessPrefix == "Space created: "
\* what argparse writes for a missing required option
UsageMsg == "error: the following arguments are required"
\* what argparse writes for -h / --help
HelpMsg == "usage: ... show this help message and exit"
\* what the interpreter writes for an uncaught exception
TracebackMsg == "Traceback (most recent call last)"
\* length of the generated space name
SlugLength == 2

\* exit statuses: sys.exit(1) / uncaught exception, argparse error, normal end
ExitFailure == 1
ExitUsage == 2
ExitSuccess == 0


\* ---------------------------------------------------------------- options
\* options declared with required=True
RequiredOptions == {"token", "git_token", "password"}

\* options declared with default=""
EmptyDefaultOptions == {"image", "git_url", "webdav_url", "webdav_user",
                        "webdav_pass", "account_id", "access_key_id",
                        "secret_access_key"}

\* options whose value goes into a secret unchanged and that are optional
PassThroughOptions == EmptyDefaultOptions \ {"image"}

\* the value an option carries on the command line when it is given a
\* non-empty value (one distinct value per option)
Given(o) == <<"<", o, ">">>

\* how many of the optional pass-through options a command line gives:
\* none of them, one of them, or all of them
GivenCounts == {0, 1, Cardinality(PassThroughOptions)}

\* command lines: per option its value, None when the option is absent;
\* help tells whether -h / --help (which ArgumentParser adds) is given
Argvs ==
    {a \in [help : BOOLEAN,
            token : {None, Empty, Given("token")},
            image : {None, Empty, Given("image")},
            git_url : {None, Given("git_url")},
            git_repo : {None, Empty, Given("git_repo")},
            git_branch : {None, Empty, Given("git_branch")},
            git_token : {None, Given("git_token")},
            password : {None, Given("password")},
            webdav_url : {None, Given("webdav_url")},
            webdav_user : {None, Given("webdav_user")},
            webdav_pass : {None, Given("webdav_pass")},
            account_id : {None, Given("account_id")},
            access_key_id : {None, Given("access_key_id")},
            secret_access_key : {None, Given("secret_access_key")}] :
        Cardinality({o \in PassThroughOptions : a[o] # None}) \in GivenCounts}

\* parser.parse_args() when every required option is present: an absent
\* option takes its declared default (None when none is declared)
parse_args(a) ==
    [o \in DOMAIN a \ {"help"} |->
        IF a[o] = None /\ o \in EmptyDefaultOptions THEN Empty ELSE a[o]]

\* ---------------------------------------------------------- derived values
\* A faulty resolution: the default is never substituted.
ResolveImage_nodefault(a) == a.image

\* image = args.image or "ghcr.io/zxlwq/music:latest"
ResolveImage(a) == Or(a.image, DefaultImage)

\* git_repo = args.git_repo or "zxlwq/music"
ResolveGitRepo(a) == Or(a.git_repo, DefaultGitRepo)

\* git_branch = args.git_branch or "main"
ResolveGitBranch(a) == Or(a.git_branch, DefaultGitBranch)

\* A faulty descriptor: the separator is left out.
RepoId_nosep(userid, slug) == userid \o slug

\* repoid = f"{userid}/{space_name}"
RepoId(userid, slug) == userid \o <<"/">> \o slug

\* the text of the manifest before and after the interpolated title
ReadmeHead == "\n---\ntitle: "
ReadmeTail == "\nemoji: <U+1F63B>\ncolorFrom: red\ncolorTo: blue\nsdk: docker\napp_port: 3000\npinned: false\n---\nCheck out the configuration reference at https://huggingface.co/docs/hub/spaces-config-reference\n"

\* readme_content = f"""\n---\ntitle: {space_name}\n..."""
ReadmeContent(slug) == <<ReadmeHead>> \o slug \o <<ReadmeTail>>

\* dockerfile_content = f"FROM {image}\n"
DockerfileContent(image) == <<"FROM ">> \o image \o <<"\n">>

\* A faulty secret list: PASSWORD and GIT_TOKEN carry each other's value.
Secrets_swapped(a) ==
    << [key |-> "GIT_REPO", value |-> ResolveGitRepo(a)],
       [key |-> "GIT_TOKEN", value |-> a.password],
       [key |-> "GIT_BRANCH", value |-> ResolveGitBranch(a)],
       [key |-> "GIT_URL", value |-> a.git_url],
       [key |-> "PASSWORD", value |-> a.git_token],
       [key |-> "WEBDAV_URL", value |-> a.webdav_url],
       [key |-> "WEBDAV_USER", value |-> a.webdav_user],
       [key |-> "WEBDAV_PASS", value |-> a.webdav_pass],
       [key |-> "ACCOUNT_ID", value |-> a.account_id],
       [key |-> "ACCESS_KEY_ID", value |-> a.access_key_id],
       [key |-> "SECRET_ACCESS_KEY", value |-> a.secret_access_key] >>

\* secrets = [{"key": ..., "value": ...}, ...]
Secrets(a) ==
    << [key |-> "GIT_REPO", value |-> ResolveGitRepo(a)],
       [key |-> "GIT_TOKEN", value |-> a.git_token],
       [key |-> "GIT_BRANCH", value |-> ResolveGitBranch(a)],
       [key |-> "GIT_URL", value |-> a.git_url],
       [key |-> "PASSWORD", value |-> a.password],
       [key |-> "WEBDAV_URL", value |-> a.webdav_url],
       [key |-> "WEBDAV_USER", value |-> a.webdav_user],
       [key |-> "WEBDAV_PASS", value |-> a.webdav_pass],
       [key |-> "ACCOUNT_ID", value |-> a.account_id],
       [key |-> "ACCESS_KEY_ID", value |-> a.access_key_id],
       [key |-> "SECRET_ACCESS_KEY", value |-> a.secret_access_key] >>

\* ------------------------------------------------------------------ state
VARIABLES
    pc,          \* position of the script
    argv,        \* the command line: option -> value, None when absent
    args,        \* the parsed namespace (Unassigned before parse_args)
    user_info,   \* whoami() response: [name |-> ...], Unassigned before
    space_name,  \* generated slug (None before it is generated)
    repoid,      \* deployment descriptor (None before it is computed)
    calls,       \* platform calls issued so far, in order, with their outcome
    printed,     \* lines written to stdout and stderr so far
    exit_code,   \* exit statuses delivered: <<>> while running, then <<n>>
    length       \* argument of generate_random_string

vars == <<pc, argv, args, user_info, space_name, repoid, calls, printed,
          exit_code, length>>

\* account names the identity lookup may report
AccountNames == {<<"a", "l">>, <<"b">>}

\* whoami() responses: a name, an empty name, or no name key at all
WhoamiResponses == {[name |-> n] : n \in AccountNames \cup {Empty, None}}

\* user_info.get("name")
GetName(info) == info.name

\* one platform call and how it ended
Call(op, target, path, content, secs, result) ==
    [op |-> op, repo_id |-> target, path |-> path, content |-> content,
     space_secrets |-> secs, result |-> result]

\* api.whoami()
WhoamiCall(result) == Call("whoami", None, None, None, None, result)

\* api.create_repo(repo_id=repoid, repo_type="space", space_sdk="docker",
\*                 space_secrets=secrets)
CreateRepoCall(result) ==
    Call("create_repo", repoid, None, None, Secrets(args), result)

\* api.upload_file(repo_id=repoid, path_in_repo="README.md", ...)
UploadReadmeCall(result) ==
    Call("upload_file", repoid, "README.md", ReadmeContent(space_name), None,
         result)

\* api.upload_file(repo_id=repoid, path_in_repo="Dockerfile", ...)
UploadDockerfileCall(result) ==
    Call("upload_file", repoid, "Dockerfile",
         DockerfileContent(ResolveImage(args)), None, result)

\* an uncaught exception: traceback on stderr, exit status 1
Abort ==
    /\ printed' = Append(printed, <<TracebackMsg>>)
    /\ exit_code' = <<ExitFailure>>
    /\ pc' = "exited"

Init ==
    /\ pc = "parse_args"
    /\ argv \in Argvs
    /\ args = Unassigned
    /\ user_info = Unassigned
    /\ space_name = None
    /\ repoid = None
    /\ calls = <<>>
    /\ printed = <<>>
    /\ exit_code = <<>>
    /\ length = SlugLength

\* args = parser.parse_args(): -h prints the help and exits 0, a missing
\* required option is a usage error with status 2
ParseArgs ==
    /\ pc = "parse_args"
    /\ IF argv.help
       THEN /\ pc' = "exited"
            /\ exit_code' = <<ExitSuccess>>
            /\ printed' = Append(printed, <<HelpMsg>>)
            /\ args' = args
       ELSE IF \E o \in RequiredOptions : argv[o] = None
       THEN /\ pc' = "exited"
            /\ exit_code' = <<ExitUsage>>
            /\ printed' = Append(printed, <<UsageMsg>>)
            /\ args' = args
       ELSE /\ pc' = "check_token"
            /\ args' = parse_args(argv)
            /\ UNCHANGED <<exit_code, printed>>
    /\ UNCHANGED <<argv, user_info, space_name, repoid, calls, length>>

\* A faulty token check: the message is printed but the run goes on.
CheckToken_noexit ==
    /\ pc = "check_token"
    /\ pc' = "whoami"
    /\ IF ~Truthy(args.token)
       THEN printed' = Append(printed, <<TokenEmptyMsg>>)
       ELSE printed' = printed
    /\ UNCHANGED <<argv, args, user_info, space_name, repoid, calls,
                   exit_code, length>>

\* token = args.token; if not token: print(...); sys.exit(1)
CheckToken ==
    /\ pc = "check_token"
    /\ IF ~Truthy(args.token)
       THEN /\ printed' = Append(printed, <<TokenEmptyMsg>>)
            /\ exit_code' = <<ExitFailure>>
            /\ pc' = "exited"
       ELSE /\ pc' = "whoami"
            /\ UNCHANGED <<printed, exit_code>>
    /\ UNCHANGED <<argv, args, user_info, space_name, repoid, calls, length>>

\* api = HfApi(token=token); user_info = api.whoami()
Whoami ==
    /\ pc = "whoami"
    /\ \/ \E r \in WhoamiResponses :
            /\ user_info' = r
            /\ calls' = Append(calls, WhoamiCall("ok"))
            /\ pc' = "check_identity"
            /\ UNCHANGED <<exit_code, printed>>
       \/ /\ calls' = Append(calls, WhoamiCall("raised"))
          /\ Abort
          /\ UNCHANGED user_info
    /\ UNCHANGED <<argv, args, space_name, repoid, length>>

\* A faulty identity check: only a missing name is rejected.
CheckIdentity_emptyok ==
    /\ pc = "check_identity"
    /\ IF GetName(user_info) = None
       THEN /\ printed' = Append(printed, <<NoUserMsg>>)
            /\ exit_code' = <<ExitFailure>>
            /\ pc' = "exited"
            /\ UNCHANGED <<space_name, repoid>>
       ELSE \E s \in generate_random_string(SlugLength) :
            /\ space_name' = s
            /\ repoid' = RepoId(GetName(user_info), s)
            /\ pc' = "create_repo"
            /\ UNCHANGED <<printed, exit_code>>
    /\ UNCHANGED <<argv, args, user_info, calls, length>>

\* if not user_info.get("name"): print(...); sys.exit(1)
\* userid = user_info.get("name"); space_name = generate_random_string(2)
\* repoid = f"{userid}/{space_name}"
CheckIdentity ==
    /\ pc = "check_identity"
    /\ IF ~Truthy(GetName(user_info))
       THEN /\ printed' = Append(printed, <<NoUserMsg>>)
            /\ exit_code' = <<ExitFailure>>
            /\ pc' = "exited"
            /\ UNCHANGED <<space_name, repoid>>
       ELSE \E s \in generate_random_string(SlugLength) :
            /\ space_name' = s
            /\ repoid' = RepoId(GetName(user_info), s)
            /\ pc' = "create_repo"
            /\ UNCHANGED <<printed, exit_code>>
    /\ UNCHANGED <<argv, args, user_info, calls, length>>

\* A faulty creation step: a failure of create_repo is caught and ignored.
CreateRepo_swallow ==
    /\ pc = "create_repo"
    /\ \E r \in {"ok", "raised"} : calls' = Append(calls, CreateRepoCall(r))
    /\ pc' = "upload_readme"
    /\ UNCHANGED <<argv, args, user_info, space_name, repoid, printed,
                   exit_code, length>>

\* api.create_repo(...)
CreateRepo ==
    /\ pc = "create_repo"
    /\ \/ /\ calls' = Append(calls, CreateRepoCall("ok"))
          /\ pc' = "upload_readme"
          /\ UNCHANGED <<exit_code, printed>>
       \/ /\ calls' = Append(calls, CreateRepoCall("raised"))
          /\ Abort
    /\ UNCHANGED <<argv, args, user_info, space_name, repoid, length>>

\* A faulty upload step: a failure of the README upload is caught and ignored.
UploadReadme_ignoreerror ==
    /\ pc = "upload_readme"
    /\ \E r \in {"ok", "raised"} : calls' = Append(calls, UploadReadmeCall(r))
    /\ pc' = "upload_dockerfile"
    /\ UNCHANGED <<argv, args, user_info, space_name, repoid, printed,
                   exit_code, length>>

\* api.upload_file(path_in_repo="README.md", ...)
UploadReadme ==
    /\ pc = "upload_readme"
    /\ \/ /\ calls' = Append(calls, UploadReadmeCall("ok"))
          /\ pc' = "upload_dockerfile"
          /\ UNCHANGED <<exit_code, printed>>
       \/ /\ calls' = Append(calls, UploadReadmeCall("raised"))
          /\ Abort
    /\ UNCHANGED <<argv, args, user_info, space_name, repoid, length>>

\* A faulty upload step: a failed Dockerfile upload deletes the deployment.
UploadDockerfile_rollback ==
    /\ pc = "upload_dockerfile"
    /\ \/ /\ calls' = Append(calls, UploadDockerfileCall("ok"))
          /\ pc' = "print_success"
          /\ UNCHANGED <<exit_code, printed>>
       \/ /\ calls' = Append(Append(calls, UploadDockerfileCall("raised")),
                             Call("delete_repo", repoid, None, None, None, "ok"))
          /\ Abort
    /\ UNCHANGED <<argv, args, user_info, space_name, repoid, length>>

\* api.upload_file(path_in_repo="Dockerfile", ...)
UploadDockerfile ==
    /\ pc = "upload_dockerfile"
    /\ \/ /\ calls' = Append(calls, UploadDockerfileCall("ok"))
          /\ pc' = "print_success"
          /\ UNCHANGED <<exit_code, printed>>
       \/ /\ calls' = Append(calls, UploadDockerfileCall("raised"))
          /\ Abort
    /\ UNCHANGED <<argv, args, user_info, space_name, repoid, length>>

\* the line print(f"Space ...: {repoid}") writes
SuccessLine(target) == <<SuccessPrefix>> \o target

\* A faulty last step: the success line is printed but the status is 1.
PrintSuccess_status1 ==
    /\ pc = "print_success"
    /\ printed' = Append(printed, SuccessLine(repoid))
    /\ exit_code' = <<ExitFailure>>
    /\ pc' = "exited"
    /\ UNCHANGED <<argv, args, user_info, space_name, repoid, calls, length>>

\* print(f"Space ...: {repoid}") and the end of the script
PrintSuccess ==
    /\ pc = "print_success"
    /\ printed' = Append(printed, SuccessLine(repoid))
    /\ exit_code' = <<ExitSuccess>>
    /\ pc' = "exited"
    /\ UNCHANGED <<argv, args, user_info, space_name, repoid, calls, length>>

Next ==
    \/ ParseArgs
    \/ CheckToken
    \/ Whoami
    \/ CheckIdentity
    \/ CreateRepo
    \/ UploadReadme
    \/ UploadDockerfile
    \/ PrintSuccess

Spec == Init /\ [][Next]_vars

\* the script is one sequential thread: a step that can be taken is taken
FairSpec == Spec /\ WF_vars(Next)

\* ------------------------------ generate_random_string taken on its own
GenInit ==
    /\ pc = "generate"
    /\ length \in -1..MaxLen
    /\ space_name = None
    /\ argv = Unassigned
    /\ args = Unassigned
    /\ user_info = Unassigned
    /\ repoid = None
    /\ calls = <<>>
    /\ printed = <<>>
    /\ exit_code = <<>>

\* space_name = generate_random_string(length)
Generate ==
    /\ pc = "generate"
    /\ space_name' \in generate_random_string(length)
    /\ pc' = "generated"
    /\ UNCHANGED <<argv, args, user_info, repoid, calls, printed, exit_code,
                   length>>

GenNext == Generate

GenSpec == GenInit /\ [][GenNext]_vars

\* ------------------------------------------------------------- vocabulary
\* the platform operation a call record stands for
OpTag(c) == IF c.op = "upload_file" THEN c.path ELSE c.op

\* the order the platform operations are written in
Order == <<"whoami", "create_repo", "README.md", "Dockerfile">>

\* positions of the log holding the given operation
CallsOf(tag) == {i \in DOMAIN calls : OpTag(calls[i]) = tag}

\* positions of the log holding the given operation with the given outcome
CallsWith(tag, result) == {i \in CallsOf(tag) : calls[i].result = result}

\* positions of the output holding a success line
SuccessLines == {i \in DOMAIN printed : printed[i][1] = SuccessPrefix}

\* the run has ended
Exited == pc = "exited"

\* the run has ended with a non-zero status
ExitedNonZero == Exited /\ exit_code \in {<<ExitFailure>>, <<ExitUsage>>}

\* the identity lookup returned a response without a usable account name
NamelessIdentity ==
    /\ CallsWith("whoami", "ok") # {}
    /\ GetName(user_info) \in {None, Empty}

\* ----------------------------------------------------------------- claims
\* C1: the platform operations occur in the order whoami, create_repo,
\* upload README.md, upload Dockerfile, success line; each at most once; none
\* is invoked unless every earlier one completed successfully.
C1_FixedOrder ==
    /\ Len(calls) <= Len(Order)
    /\ \A i \in DOMAIN calls : OpTag(calls[i]) = Order[i]
    /\ \A i \in DOMAIN calls : i < Len(calls) => calls[i].result = "ok"
    /\ Cardinality(SuccessLines) <= 1
    /\ SuccessLines # {} =>
          /\ Len(calls) = Len(Order)
          /\ calls[Len(Order)].result = "ok"

C1_Witness ==
    /\ Exited
    /\ Len(calls) = Len(Order)
    /\ SuccessLines # {}

C3_NamelessIdentityAborts ==
    NamelessIdentity =>
        /\ Len(calls) = 1
        /\ pc \in {"check_identity", "exited"}
        /\ Exited => /\ exit_code = <<ExitFailure>>
                     /\ printed = << <<NoUserMsg>> >>

C3_Witness ==
    /\ NamelessIdentity
    /\ GetName(user_info) = Empty
    /\ Exited
    /\ exit_code = <<ExitFailure>>

\* C4: if create_repo raises, no upload is made, the success line is not
\* printed and the run ends with a non-zero status.
C4_CreateFailureAborts ==
    CallsWith("create_repo", "raised") # {} =>
        /\ CallsOf("README.md") = {}
        /\ CallsOf("Dockerfile") = {}
        /\ SuccessLines = {}
        /\ ExitedNonZero

C4_Witness ==
    /\ CallsWith("create_repo", "raised") # {}
    /\ ExitedNonZero

\* C5: if the README.md upload succeeds and the Dockerfile upload raises, the
\* run ends non-zero with README.md as the only uploaded artifact, without a
\* rollback call, without a second Dockerfile upload and without success line.
C5_PartialFailure ==
    (CallsWith("README.md", "ok") # {} /\ CallsWith("Dockerfile", "raised") # {}) =>
        /\ ExitedNonZero
        /\ {calls[i].path : i \in {j \in DOMAIN calls :
                calls[j].op = "upload_file" /\ calls[j].result = "ok"}}
              = {"README.md"}
        /\ CallsWith("create_repo", "ok") # {}
        /\ \A i \in DOMAIN calls : calls[i].op \in {"whoami", "create_repo", "upload_file"}
        /\ Cardinality(CallsOf("Dockerfile")) = 1
        /\ SuccessLines = {}

C5_Witness ==
    /\ CallsWith("README.md", "ok") # {}
    /\ CallsWith("Dockerfile", "raised") # {}
    /\ Exited

\* the four platform steps all succeeded (the lookup with a usable name)
AllFourSucceeded ==
    /\ \A t \in {Order[i] : i \in DOMAIN Order} : CallsWith(t, "ok") # {}
    /\ ~NamelessIdentity

\* C6 as stated: a finished run has status 0, and the success line with the
\* descriptor, exactly when whoami, create_repo and both uploads succeeded.
C6_ExitZeroOnlyAfterFourSteps ==
    Exited =>
        /\ exit_code = <<ExitSuccess>> <=> AllFourSucceeded
        /\ exit_code = <<ExitSuccess>> <=>
              (\E i \in DOMAIN printed : printed[i] = SuccessLine(repoid))

\* the exit status and the success line of a state agree with the four steps
C6_Outcome ==
    /\ ~Exited => exit_code = <<>> /\ SuccessLines = {}
    /\ Exited =>
          /\ exit_code \in {<<ExitSuccess>>, <<ExitFailure>>, <<ExitUsage>>}
          /\ exit_code = <<ExitSuccess>> <=> (argv.help \/ AllFourSucceeded)
          /\ AllFourSucceeded <=>
                (\E i \in DOMAIN printed : printed[i] = SuccessLine(repoid))
          /\ argv.help => calls = <<>>
          /\ SuccessLines # {} => exit_code = <<ExitSuccess>>

\* C6 (amended): the process exits 0 exactly when whoami, create_repo and
\* both uploads succeeded or the command line asks for help; the success
\* line with the descriptor is printed exactly in the first case; every run
\* reaches a terminal outcome, and the outcome once reached does not change.
C6_ExitZeroIff ==
    /\ []C6_Outcome
    /\ [][exit_code # <<>> => (exit_code' = exit_code /\ pc' = pc)]_vars
    /\ <>Exited

C6_Witness ==
    /\ Exited
    /\ exit_code = <<ExitSuccess>>
    /\ AllFourSucceeded

\* the title of a manifest: the text between "title: " and the line end
FrontMatterTitle(content) ==
    LET start == CHOOSE i \in DOMAIN content : content[i] = ReadmeHead
        stop == CHOOSE i \in DOMAIN content : content[i] = ReadmeTail
    IN  SubSeq(content, start + 1, stop - 1)

\* the descriptor, the slug and every use of them in a state
C7_Descriptor ==
    /\ space_name # None =>
          /\ Len(space_name) = SlugLength
          /\ repoid = GetName(user_info) \o <<"/">> \o space_name
    /\ \A i \in DOMAIN calls :
          calls[i].op \in {"create_repo", "upload_file"} =>
             calls[i].repo_id = GetName(user_info) \o <<"/">> \o space_name
    /\ \A i \in CallsOf("README.md") :
          FrontMatterTitle(calls[i].content) = space_name
    /\ \A i \in SuccessLines :
          printed[i] = <<SuccessPrefix>> \o GetName(user_info) \o <<"/">> \o space_name

\* C7: the descriptor is accountName/slug, computed once from the looked-up
\* account name and one 2-character slug; create_repo, both uploads and the
\* success line use that descriptor, and the README title is that slug.
C7_OneDescriptor ==
    /\ []C7_Descriptor
    /\ [][space_name # None =>
            (space_name' = space_name /\ repoid' = repoid /\ user_info' = user_info)]_vars

C7_Witness ==
    /\ Exited
    /\ SuccessLines # {}
    /\ repoid = <<"a", "l", "/", "Z", "7">>

\* C8: for length >= 1 generate_random_string returns a string of exactly
\* that length made of letters and digits with at least one letter; for
\* length 0 or negative it returns the empty string.
C8_GeneratedString ==
    pc = "generated" =>
        IF length >= 1
        THEN /\ Len(space_name) = length
             /\ \A i \in DOMAIN space_name : space_name[i] \in Letters \cup Digits
             /\ \E i \in DOMAIN space_name : space_name[i] \in Letters
        ELSE space_name = Empty

C8_Witness ==
    /\ pc = "generated"
    /\ length = 3
    /\ Cardinality({i \in DOMAIN space_name : space_name[i] \in Digits}) = 2

\* the eleven secret names
SecretKeys == {"GIT_REPO", "GIT_TOKEN", "GIT_BRANCH", "GIT_URL", "PASSWORD",
               "WEBDAV_URL", "WEBDAV_USER", "WEBDAV_PASS", "ACCOUNT_ID",
               "ACCESS_KEY_ID", "SECRET_ACCESS_KEY"}

\* the option a secret is fed from
OptionOf(k) ==
    CASE k = "GIT_REPO" -> "git_repo"
      [] k = "GIT_TOKEN" -> "git_token"
      [] k = "GIT_BRANCH" -> "git_branch"
      [] k = "GIT_URL" -> "git_url"
      [] k = "PASSWORD" -> "password"
      [] k = "WEBDAV_URL" -> "webdav_url"
      [] k = "WEBDAV_USER" -> "webdav_user"
      [] k = "WEBDAV_PASS" -> "webdav_pass"
      [] k = "ACCOUNT_ID" -> "account_id"
      [] k = "ACCESS_KEY_ID" -> "access_key_id"
      [] k = "SECRET_ACCESS_KEY" -> "secret_access_key"

\* the value the claim gives a secret, from the command line
ExpectedSecret(k) ==
    LET given == argv[OptionOf(k)]
    IN  CASE k = "GIT_REPO" ->
               IF given \in {None, Empty} THEN <<"zxlwq/music">> ELSE given
          [] k = "GIT_BRANCH" ->
               IF given \in {None, Empty} THEN <<"main">> ELSE given
          [] OTHER -> IF given = None THEN Empty ELSE given

\* C9: the secret list of create_repo holds exactly the eleven fixed keys,
\* each once, with the values the command line gives (or the default, or the
\* empty string); no other call carries secrets.
C9_SecretSet ==
    \A i \in DOMAIN calls :
        IF calls[i].op = "create_repo"
        THEN LET secs == calls[i].space_secrets
             IN  /\ Len(secs) = Cardinality(SecretKeys)
                 /\ {secs[j].key : j \in DOMAIN secs} = SecretKeys
                 /\ \A j \in DOMAIN secs : secs[j].value = ExpectedSecret(secs[j].key)
        ELSE calls[i].space_secrets = None

C9_Witness ==
    /\ CallsOf("create_repo") # {}
    /\ CallsOf("Dockerfile") # {}
    /\ argv.git_repo = None
    /\ argv.git_branch = Given("git_branch")
    /\ argv.webdav_user = Given("webdav_user")
    /\ argv.account_id = None

\* the image the claim resolves from the command line
ExpectedImage ==
    IF argv.image \in {None, Empty}
    THEN <<"ghcr.io/zxlwq/music:latest">>
    ELSE argv.image

\* C10: the resolved image is the default when no image is given and the
\* given image otherwise, and the uploaded Dockerfile is the single line
\* "FROM <resolved image>".
C10_ImageResolution ==
    \A i \in CallsOf("Dockerfile") :
        calls[i].content = <<"FROM ">> \o ExpectedImage \o <<"\n">>

C10_Witness ==
    /\ CallsWith("Dockerfile", "ok") # {}
    /\ argv.image = None
====
